---- MODULE Spec2Model ----
(***************************************************************************)
(* Garden Design bot: the Chainlit handlers of app.py and the shared       *)
(* GeminiImageService of services/gemini_image_service.py.                 *)
(*                                                                         *)
(* Text is a sequence of one-character strings, bytes are opaque strings   *)
(* ("" is the empty buffer), Python's None is the string None.             *)
(* A handler is an operator from a context [sess, svc, log] to the set of  *)
(* contexts it can end in, one per answer of the external Gemini API.      *)
(*                                                                         *)
(* Spec, SpecStyle and SpecPhotos run one session's messages one at a      *)
(* time, SpecTwo and SpecChat two sessions of one process, SpecAwait one   *)
(* session whose handlers are split at their awaits, SpecService the       *)
(* service alone.                                                          *)
(***************************************************************************)
EXTENDS Naturals, Sequences, FiniteSets

VARIABLES
    GOOGLE_API_KEY,   \* the process environment's credential ("" when missing)
    gemini_api,       \* which answers the Gemini API may give: "any", "plain" or "chat"
    gemini_service,   \* the module-level singleton of app.py
    user_session,     \* cl.user_session of every session
    generated_for,    \* ghost: per session, the image its last successful render or refinement returned
    chatted_for,      \* ghost: per session, the turns of its successful chat calls
    tasks,            \* the message handlers suspended at an await
    last              \* ghost: the handler that ran last, its input and what it did

vars ==
    <<GOOGLE_API_KEY, gemini_api, gemini_service, user_session, generated_for,
      chatted_for, tasks, last>>

None == "None"

\* ------------------------------------------------------------------ bounds

\* chat() calls that may be made before the model stops taking generic chat
MaxChatTurns == 1

\* chat() calls of the API that answers plainly and chats
MaxHistoryTurns == 2

\* message handlers that may be suspended at the same time
MaxTasks == 2

Sessions == {"A", "B"}

\* ------------------------------------------------------------------ SessionState

WELCOME == "welcome"
WAITING_IMAGE == "waiting_image"
ANALYZING == "analyzing"
COLLECTING_STYLE == "collecting_style"
COLLECTING_ELEMENTS == "collecting_elements"
READY_TO_GENERATE == "ready_to_generate"
GENERATED == "generated"

\* ------------------------------------------------------------------ text

UpperCase ==
    <<"A", "B", "C", "D", "E", "F", "G", "H", "I", "J", "K", "L", "M",
      "N", "O", "P", "Q", "R", "S", "T", "U", "V", "W", "X", "Y", "Z">>

LowerCase ==
    <<"a", "b", "c", "d", "e", "f", "g", "h", "i", "j", "k", "l", "m",
      "n", "o", "p", "q", "r", "s", "t", "u", "v", "w", "x", "y", "z">>

\* str.lower() on one character
lower_char(ch) ==
    IF \E i \in 1..Len(UpperCase) : UpperCase[i] = ch
    THEN LowerCase[CHOOSE i \in 1..Len(UpperCase) : UpperCase[i] = ch]
    ELSE ch

\* str.lower()
lower(text) == [i \in 1..Len(text) |-> lower_char(text[i])]

\* Python's `sub in text` on strings
contains(text, sub) ==
    \E i \in 0..Len(text) :
        /\ i + Len(sub) <= Len(text)
        /\ SubSeq(text, i + 1, i + Len(sub)) = sub

\* any(t in user_lower for t in triggers)
any_in(triggers, user_lower) ==
    \E i \in 1..Len(triggers) : contains(user_lower, triggers[i])

\* truthiness of an Optional[bytes] value
truthy(image_data) == image_data # None /\ image_data # ""

\* ------------------------------------------------------------------ lexicon

style_keywords ==
    <<
       [style |-> "modern", keywords |-> <<
            <<"m", "o", "d", "e", "r", "n", "o">>,
            <<"m", "i", "n", "i", "m", "a", "l", "i", "s", "t", "a">>,
            <<"c", "o", "n", "t", "e", "m", "p", "o", "r", "a", "n", "e", "o">>,
            <<"m", "o", "d", "e", "r", "n">>>>],
       [style |-> "mediterranean", keywords |-> <<
            <<"m", "e", "d", "i", "t", "e", "r", "r", "a", "n", "e", "o">>,
            <<"i", "t", "a", "l", "i", "a", "n", "o">>,
            <<"t", "o", "s", "c", "a", "n", "o">>,
            <<"m", "e", "d">>>>],
       [style |-> "tropical", keywords |-> <<
            <<"t", "r", "o", "p", "i", "c", "a", "l", "e">>,
            <<"e", "s", "o", "t", "i", "c", "o">>,
            <<"t", "r", "o", "p", "i", "c", "o">>,
            <<"p", "a", "l", "m", "e">>>>],
       [style |-> "zen", keywords |-> <<
            <<"z", "e", "n">>,
            <<"g", "i", "a", "p", "p", "o", "n", "e", "s", "e">>,
            <<"j", "a", "p", "p", "o", "n", "e", "s", "e">>,
            <<"o", "r", "i", "e", "n", "t", "a", "l", "e">>>>],
       [style |-> "english", keywords |-> <<
            <<"i", "n", "g", "l", "e", "s", "e">>,
            <<"r", "o", "m", "a", "n", "t", "i", "c", "o">>,
            <<"c", "o", "t", "t", "a", "g", "e">>,
            <<"e", "n", "g", "l", "i", "s", "h">>>>],
       [style |-> "contemporary", keywords |-> <<
            <<"o", "u", "t", "d", "o", "o", "r", " ", "l", "i", "v", "i", "n", "g">>,
            <<"f", "i", "r", "e", " ", "p", "i", "t">>,
            <<"c", "u", "c", "i", "n", "a", " ", "e", "s", "t", "e", "r", "n", "a">>,
            <<"l", "o", "u", "n", "g", "e">>>>]
    >>

generate_triggers ==
    <<
        <<"g", "e", "n", "e", "r", "a">>,
        <<"o", "k">>,
        <<"p", "r", "o", "c", "e", "d", "i">>,
        <<"v", "a", "i">>,
        <<"c", "r", "e", "a">>,
        <<"r", "e", "n", "d", "e", "r", "i", "n", "g">>,
        <<"i", "n", "i", "z", "i", "a">>,
        <<"p", "e", "r", "f", "e", "t", "t", "o">>,
        <<"s", "i_grave">>,
        <<"s", "i">>
    >>

restart_triggers ==
    <<
        <<"r", "i", "g", "e", "n", "e", "r", "a">>,
        <<"n", "u", "o", "v", "o">>,
        <<"r", "i", "c", "o", "m", "i", "n", "c", "i", "a">>
    >>

\* ------------------------------------------------------------------ inputs

TextRigenera == <<"R", "I", "G", "E", "N", "E", "R", "A">>
TextModerno == <<"m", "o", "d", "e", "r", "n", "o">>
TextFiori == <<"f", "i", "o", "r", "i">>

\* the texts a user sends: one with a generate and a restart trigger, one
\* naming a style, one with neither
Texts == {TextRigenera, TextModerno, TextFiori}

TextZenModerno == <<"z", "e", "n", " ", "m", "o", "d", "e", "r", "n", "o">>
TextContemporaneo == <<"C", "o", "n", "t", "e", "m", "p", "o", "r", "a", "n", "e", "o">>
TextPalmeMedie == <<"p", "a", "l", "m", "e", " ", "m", "e", "d", "i", "e">>
TextLoungeZen == <<"l", "o", "u", "n", "g", "e", " ", "z", "e", "n">>
TextCottageLounge == <<"c", "o", "t", "t", "a", "g", "e", " ", "l", "o", "u", "n", "g", "e">>
TextFirePit == <<"f", "i", "r", "e", " ", "p", "i", "t">>
TextModer == <<"m", "o", "d", "e", "r">>

\* the answers a user gives to the style question: texts naming two styles
\* in either order, a keyword of another tag's name, a keyword inside a
\* word, one style, no style
StyleTexts ==
    { TextZenModerno, TextContemporaneo, TextPalmeMedie, TextLoungeZen,
      TextCottageLounge, TextFirePit, TextModer, TextFiori }

\* the first cl.Image element of a message: None (no image element), the
\* bytes of an empty file, or the bytes of a photo
Attachments == {None, "", "photo1"}

Prato == <<"p", "r", "a", "t", "o">>
Fontana == <<"f", "o", "n", "t", "a", "n", "a">>
Tetto == <<"t", "e", "t", "t", "o">>

\* ------------------------------------------------------------------ the Gemini API

\* An answer of client.models.generate_content: the call raises, or it
\* returns a response.

\* JSON texts the chat model may answer an interpretation prompt with, by
\* what json.loads makes of them
JsonObjects ==
    { [kind |-> "dict", keys |-> {"elements", "excluded", "summary"},
       elements |-> <<Prato>>, excluded |-> <<Fontana>>, out_of_scope |-> <<>>],
      [kind |-> "dict", keys |-> {"elements", "excluded", "summary"},
       elements |-> <<Prato, Fontana>>, excluded |-> <<Fontana>>, out_of_scope |-> <<>>],
      [kind |-> "dict", keys |-> {"elements", "excluded", "out_of_scope", "summary"},
       elements |-> <<>>, excluded |-> <<>>, out_of_scope |-> <<Tetto>>],
      [kind |-> "dict", keys |-> {"elements", "excluded", "out_of_scope", "summary"},
       elements |-> <<Fontana>>, excluded |-> <<>>, out_of_scope |-> <<Tetto>>],
      [kind |-> "dict", keys |-> {"elements"},
       elements |-> <<Prato, Prato>>, excluded |-> <<>>, out_of_scope |-> <<>>] }

NonObjectBodies ==
    { [kind |-> k, keys |-> {}, elements |-> <<>>, excluded |-> <<>>, out_of_scope |-> <<>>] :
        k \in {"not_json", "empty", "list", "string"} }

\* response.text of the interpretation call: absent (None), or a text with
\* or without a markdown code fence around its body
InterpretTexts ==
    { [is_none |-> TRUE, fenced |-> FALSE, body |-> CHOOSE b \in NonObjectBodies : b.kind = "empty"] }
    \cup { [is_none |-> FALSE, fenced |-> FALSE, body |-> b] : b \in JsonObjects \cup NonObjectBodies }
    \cup { [is_none |-> FALSE, fenced |-> TRUE, body |-> b] :
             b \in { o \in JsonObjects : o.keys = {"elements"} } }

\* the interpretation answers of the plain API: one well-formed object
PlainInterpretTexts ==
    { t \in InterpretTexts :
        /\ ~t.is_none /\ ~t.fenced
        /\ t.body.kind = "dict" /\ t.body.elements = <<Prato>> }

\* the parts of response.candidates[0].content.parts of an image call, each
\* by its inline_data.data (None: a text part)
ImageParts ==
    { <<>>,
      <<None>>,
      <<None, "render1">>,
      <<"", "render2", "render1">> }

\* the image answers of the plain API: one image part
PlainImageParts == { <<"render1">>, <<"render2">> }

\* what generate_content may answer to an interpretation prompt
interpret_answers == IF gemini_api = "any" THEN InterpretTexts ELSE PlainInterpretTexts

\* what generate_content may answer to an image prompt
image_answers == IF gemini_api = "any" THEN ImageParts ELSE PlainImageParts

\* how many chat() calls the model takes
chat_turns ==
    IF gemini_api = "any" THEN MaxChatTurns
    ELSE IF gemini_api = "chat" THEN MaxHistoryTurns
    ELSE 0

ChatReply == <<"r">>
AnalysisText == <<"a">>

\* ------------------------------------------------------------------ GeminiImageService

CHAT_SYSTEM_PROMPT == <<"[SYSTEM]">>
SystemAck == <<"C", "a", "p", "i", "t", "o">>

\* types.Content(role=..., parts=[image?, text])
Content(role, image, text) == [role |-> role, image |-> image, text |-> text]

\* GeminiImageService.__init__
NewService ==
    [exists |-> TRUE, chat_history |-> <<>>, current_image |-> None, original_image |-> None]

\* the module-level `gemini_service = None`
NoService ==
    [exists |-> FALSE, chat_history |-> <<>>, current_image |-> None, original_image |-> None]

\* GeminiImageService.reset_session
reset_session(svc) ==
    [svc EXCEPT !.chat_history = <<>>, !.current_image = None, !.original_image = None]

\* one capability call as the log keeps it
Call(name) ==
    [name |-> name, image |-> None, text |-> <<>>, style |-> None,
     modifications |-> <<>>, preserve |-> <<>>, excluded |-> <<>>,
     contents |-> <<>>, answer |-> None, ok |-> FALSE, result |-> None]

\* what a service method ends in: the service after it, whether it returned
\* (ok) or raised (err), its return value and the API call it made (if any)
Outcome(svc, ok, err, val, calls) ==
    [svc |-> svc, ok |-> ok, err |-> err, val |-> val, calls |-> calls]

\* GeminiImageService.chat
chat(svc, message, image_data) ==
    LET system ==
            IF svc.chat_history = <<>>
            THEN << Content("user", None, CHAT_SYSTEM_PROMPT), Content("model", None, SystemAck) >>
            ELSE <<>>
        svc1 ==
            IF truthy(image_data)
            THEN [svc EXCEPT !.original_image = image_data, !.current_image = image_data]
            ELSE svc
        turn == Content("user", IF truthy(image_data) THEN image_data ELSE None, message)
        contents == system \o svc.chat_history \o <<turn>>
        call == [Call("chat") EXCEPT !.text = message, !.image = turn.image, !.contents = contents]
    IN  IF Len(svc.chat_history) >= 2 * chat_turns
        THEN {}
        ELSE { Outcome(svc1, FALSE, "APIError", <<>>, <<call>>),
               Outcome([svc1 EXCEPT !.chat_history =
                            @ \o <<turn, Content("model", None, ChatReply)>>],
                       TRUE, None, ChatReply, << [call EXCEPT !.ok = TRUE] >>) }

BaselinePreserve ==
    << <<"c", "a", "s", "a">>, <<"f", "i", "n", "e", "s", "t", "r", "e">>,
       <<"t", "e", "t", "t", "o">>, <<"f", "o", "n", "d", "a", "m", "e", "n", "t", "a">> >>

StyleTags == {"modern", "mediterranean", "tropical", "zen", "english", "contemporary"}

\* style_descriptions.get(style, style_descriptions["modern"]); a
\* description is named by its tag
style_description(style) == IF style \in StyleTags THEN style ELSE "modern"

\* mutant: the session-specific items replace the baseline
preserve_list_replaces(preserve_elements) ==
    IF preserve_elements # <<>> THEN preserve_elements ELSE BaselinePreserve

\* preserve_list of generate_landscape_rendering (None and [] are both
\* falsy and both <<>> here)
preserve_list(preserve_elements) ==
    IF preserve_elements # <<>> THEN BaselinePreserve \o preserve_elements ELSE BaselinePreserve

RECURSIVE first_inline_data(_)
\* the loop over response parts: the first part whose inline data is non-empty
first_inline_data(parts) ==
    IF parts = <<>> THEN None
    ELSE IF truthy(Head(parts)) THEN Head(parts)
    ELSE first_inline_data(Tail(parts))

\* mutant: the generated image is returned but not kept as current_image
generate_landscape_rendering_keeps_nothing(svc, image_data, style, modifications, preserve_elements, additional_notes) ==
    LET call == [Call("generate_landscape_rendering") EXCEPT
                    !.image = image_data,
                    !.style = style_description(style),
                    !.modifications = modifications,
                    !.preserve = preserve_list(preserve_elements),
                    !.excluded = additional_notes.excluded,
                    !.text = additional_notes.user_description]
    IN  { Outcome(svc, FALSE, "APIError", None, <<call>>) }
        \cup
        { IF first_inline_data(parts) = None
          THEN Outcome(svc, FALSE, "Nessuna immagine generata nella risposta", None, <<call>>)
          ELSE Outcome(svc, TRUE, None, first_inline_data(parts),
                       << [call EXCEPT !.ok = TRUE, !.result = first_inline_data(parts)] >>)
          : parts \in image_answers }

\* GeminiImageService.generate_landscape_rendering
generate_landscape_rendering(svc, image_data, style, modifications, preserve_elements, additional_notes) ==
    LET call == [Call("generate_landscape_rendering") EXCEPT
                    !.image = image_data,
                    !.style = style_description(style),
                    !.modifications = modifications,
                    !.preserve = preserve_list(preserve_elements),
                    !.excluded = additional_notes.excluded,
                    !.text = additional_notes.user_description]
    IN  { Outcome(svc, FALSE, "APIError", None, <<call>>) }
        \cup
        { IF first_inline_data(parts) = None
          THEN Outcome(svc, FALSE, "Nessuna immagine generata nella risposta", None, <<call>>)
          ELSE Outcome([svc EXCEPT !.current_image = first_inline_data(parts)],
                       TRUE, None, first_inline_data(parts),
                       << [call EXCEPT !.ok = TRUE, !.result = first_inline_data(parts)] >>)
          : parts \in image_answers }

\* GeminiImageService.refine_rendering
refine_rendering(svc, feedback) ==
    LET call == [Call("refine_rendering") EXCEPT !.image = svc.current_image, !.text = feedback]
    IN  IF svc.current_image = None
        THEN { Outcome(svc, FALSE, "Nessuna immagine corrente da raffinare", None, <<>>) }
        ELSE { Outcome(svc, FALSE, "APIError", None, <<call>>) }
             \cup
             { IF first_inline_data(parts) = None
               THEN Outcome(svc, FALSE, "Nessuna immagine generata", None, <<call>>)
               ELSE Outcome([svc EXCEPT !.current_image = first_inline_data(parts)],
                            TRUE, None, first_inline_data(parts),
                            << [call EXCEPT !.ok = TRUE, !.result = first_inline_data(parts)] >>)
               : parts \in image_answers }

\* GeminiImageService.analyze_garden (the analysis returned is a text about
\* the image it was given)
analyze_garden(svc, image_data) ==
    LET call == [Call("analyze_garden") EXCEPT !.image = image_data]
    IN  { Outcome(svc, FALSE, "APIError", <<>>, <<call>>),
          Outcome(svc, TRUE, None, AnalysisText \o <<image_data>>,
                  << [call EXCEPT !.ok = TRUE] >>) }

\* text.strip(), then the removal of a markdown code fence
strip_code_fence(text) == text.body

\* json.loads: the value, or JSONDecodeError
json_loads(body) ==
    IF body.kind \in {"not_json", "empty"}
    THEN [raised |-> TRUE, value |-> body]
    ELSE [raised |-> FALSE, value |-> body]

\* the parse of interpret_user_request: try / except json.JSONDecodeError
parse_interpretation(text, user_message) ==
    IF text.is_none
    THEN [ok |-> FALSE, err |-> "AttributeError", val |-> text.body]
    ELSE LET parsed == json_loads(strip_code_fence(text))
         IN  IF parsed.raised
             THEN [ok |-> TRUE, err |-> None,
                   val |-> [kind |-> "dict", keys |-> {"elements", "excluded", "summary"},
                            elements |-> <<user_message>>, excluded |-> <<>>,
                            out_of_scope |-> <<>>]]
             ELSE [ok |-> TRUE, err |-> None, val |-> parsed.value]

\* what response.text of an interpretation call was: absent, or its body's kind
answer_kind(text) == IF text.is_none THEN "absent" ELSE text.body.kind

\* GeminiImageService.interpret_user_request
interpret_user_request(svc, user_message, style) ==
    LET call == [Call("interpret_user_request") EXCEPT !.text = user_message, !.style = style]
    IN  { Outcome(svc, FALSE, "APIError", <<>>, <<call>>) }
        \cup
        { LET r == parse_interpretation(text, user_message)
          IN  Outcome(svc, r.ok, r.err, r.val,
                      << [call EXCEPT !.ok = r.ok, !.answer = answer_kind(text),
                                      !.result = IF r.ok THEN r.val ELSE None] >>)
          : text \in interpret_answers }

\* ------------------------------------------------------------------ app.py

\* cl.user_session of a session whose chat has not started
NoSession ==
    [connected |-> FALSE, initialised |-> FALSE, state |-> None, uploaded_image |-> None,
     style |-> None, elements |-> <<>>, excluded |-> <<>>, user_description |-> <<>>,
     preserve |-> <<>>, photo_analysis |-> <<>>]

\* what one handler run did: the values it assigned to "state", the session
\* keys it assigned, the capability calls it made, the messages it sent,
\* whether it entered generate_rendering
EmptyLog ==
    [states |-> <<>>, written |-> {}, calls |-> <<>>, sent |-> <<>>, rendering |-> FALSE]

\* a running handler: its session store, the service singleton, its log and
\* the exception propagating out of it (None: it returned)
Context(sess, svc) == [sess |-> sess, svc |-> svc, log |-> EmptyLog, exc |-> None]

\* await cl.Message(content=...).send()
say(c, kind) == [c EXCEPT !.log.sent = Append(@, [kind |-> kind, error |-> None])]

\* await cl.Message(content=f"... {e}").send()
say_error(c, kind, e) == [c EXCEPT !.log.sent = Append(@, [kind |-> kind, error |-> e])]

\* cl.user_session.set(key, value)
session_set(c, key, value) ==
    [c EXCEPT !.sess[key] = value, !.log.written = @ \cup {key}]

\* cl.user_session.set("state", st)
set_state(c, st) == [session_set(c, "state", st) EXCEPT !.log.states = Append(@, st)]

\* a service method has run: the service it left and the call it made
after_call(c, o) == [c EXCEPT !.svc = o.svc, !.log.calls = @ \o o.calls]

\* mutant: a service is built without a credential
get_service_without_key(svc, api_key) ==
    IF svc.exists THEN [ok |-> TRUE, svc |-> svc] ELSE [ok |-> TRUE, svc |-> NewService]

\* get_service
get_service(svc, api_key) ==
    IF svc.exists THEN [ok |-> TRUE, svc |-> svc]
    ELSE IF api_key = "" THEN [ok |-> FALSE, svc |-> svc]
    ELSE [ok |-> TRUE, svc |-> NewService]

\* on_chat_start
on_chat_start(c, api_key) ==
    LET got == get_service(c.svc, api_key)
        c0 == [c EXCEPT !.sess.connected = TRUE]
    IN  IF ~got.ok
        THEN { say_error(c0, "configuration_error", "GOOGLE_API_KEY non configurata") }
        ELSE LET c1 == [c0 EXCEPT !.svc = reset_session(got.svc)]
                 c2 == set_state(c1, WELCOME)
                 c3 == session_set(session_set(session_set(session_set(session_set(
                           session_set([c2 EXCEPT !.sess.initialised = TRUE],
                               "uploaded_image", None),
                               "style", None),
                               "elements", <<>>),
                               "excluded", <<>>),
                               "user_description", <<>>),
                               "preserve", <<>>)
             IN  { set_state(say(c3, "welcome"), WAITING_IMAGE) }

\* mutant: `if image_data is None`
no_uploaded_image_only_none(image_data) == image_data = None

\* the `if not image_data` of generate_rendering
no_uploaded_image(image_data) == ~truthy(image_data)

\* additional notes of generate_rendering: the style sentence, the
\* exclusion clause (when excluded is not empty) and the original request
additional_notes(style, excluded, user_description) ==
    [style |-> style, excluded |-> excluded, user_description |-> user_description]

\* mutant: the state is set to GENERATED after the try block, also when the
\* render failed
generate_rendering_sets_state_anyway(c, api_key) ==
    LET got == get_service(c.svc, api_key)
        c0 == [c EXCEPT !.log.rendering = TRUE, !.svc = got.svc]
        image_data == c.sess.uploaded_image
        additional ==
            additional_notes(c.sess.style, c.sess.excluded, c.sess.user_description)
    IN  IF ~got.ok THEN { [c0 EXCEPT !.exc = "GOOGLE_API_KEY non configurata"] }
        ELSE IF no_uploaded_image(image_data) THEN { say(c0, "no_image_guidance") }
        ELSE { IF o.ok
               THEN set_state(
                        say(say(after_call(say(c0, "generating"), o), "rendering"), "next_steps"),
                        GENERATED)
               ELSE set_state(
                        say_error(after_call(say(c0, "generating"), o), "generation_error", o.err),
                        GENERATED)
               : o \in generate_landscape_rendering(
                           c0.svc, image_data, c.sess.style, c.sess.elements,
                           << <<"a", "l", "b", "e", "r", "i">> >>, additional) }

\* generate_rendering
generate_rendering(c, api_key) ==
    LET got == get_service(c.svc, api_key)
        c0 == [c EXCEPT !.log.rendering = TRUE, !.svc = got.svc]
        image_data == c.sess.uploaded_image
        additional ==
            additional_notes(c.sess.style, c.sess.excluded, c.sess.user_description)
    IN  IF ~got.ok THEN { [c0 EXCEPT !.exc = "GOOGLE_API_KEY non configurata"] }
        ELSE IF no_uploaded_image(image_data) THEN { say(c0, "no_image_guidance") }
        ELSE { IF o.ok
               THEN set_state(
                        say(say(after_call(say(c0, "generating"), o), "rendering"), "next_steps"),
                        GENERATED)
               ELSE say_error(after_call(say(c0, "generating"), o), "generation_error", o.err)
               : o \in generate_landscape_rendering(
                           c0.svc, image_data, c.sess.style, c.sess.elements,
                           << <<"a", "l", "b", "e", "r", "i">> >>, additional) }

\* mutant: no try / except around the refinement
refine_current_rendering_uncaught(c, feedback) ==
    { IF o.ok
      THEN say(after_call(say(c, "refining"), o), "refined_rendering")
      ELSE [after_call(say(c, "refining"), o) EXCEPT !.exc = o.err]
      : o \in refine_rendering(c.svc, feedback) }

\* refine_current_rendering
refine_current_rendering(c, feedback) ==
    { IF o.ok
      THEN say(after_call(say(c, "refining"), o), "refined_rendering")
      ELSE say_error(after_call(say(c, "refining"), o), "refinement_error", o.err)
      : o \in refine_rendering(c.svc, feedback) }

\* mutant: the last tag, in declaration order, with a keyword in the text
last_style(table, user_lower) ==
    LET hits == { i \in 1..Len(table) : any_in(table[i].keywords, user_lower) }
    IN  IF hits = {} THEN None
        ELSE table[CHOOSE i \in hits : \A j \in hits : j <= i].style

RECURSIVE first_style(_, _)
\* the loop over style_keywords.items(): the first tag, in declaration
\* order, with a keyword in the text
first_style(table, user_lower) ==
    IF table = <<>> THEN None
    ELSE IF any_in(Head(table).keywords, user_lower) THEN Head(table).style
    ELSE first_style(Tail(table), user_lower)

\* detected_style of handle_chat
detected_style(user_lower) == first_style(style_keywords, user_lower)

\* interpretation.get(key, default)
dict_get(d, key, default) == IF key \in d.keys THEN d[key] ELSE default

\* mutant: the returned lists are appended to the stored ones
store_interpretation_merges(c, interpretation) ==
    IF interpretation.kind # "dict"
    THEN say_error(c, "interpretation_error", "AttributeError")
    ELSE LET detected_elements == dict_get(interpretation, "elements", <<>>)
             excluded_elements == dict_get(interpretation, "excluded", <<>>)
             out_of_scope == dict_get(interpretation, "out_of_scope", <<>>)
             c1 == session_set(session_set(c, "elements", c.sess.elements \o detected_elements),
                               "excluded", c.sess.excluded \o excluded_elements)
             c2 == IF out_of_scope # <<>> THEN say(c1, "out_of_scope_note") ELSE c1
         IN  IF detected_elements = <<>>
             THEN say(c2, "no_elements_found")
             ELSE set_state(say(c2, "summary"), READY_TO_GENERATE)

\* mutant: the summary and READY_TO_GENERATE also for an empty elements list
store_interpretation_always_ready(c, interpretation) ==
    IF interpretation.kind # "dict"
    THEN say_error(c, "interpretation_error", "AttributeError")
    ELSE LET detected_elements == dict_get(interpretation, "elements", <<>>)
             excluded_elements == dict_get(interpretation, "excluded", <<>>)
             out_of_scope == dict_get(interpretation, "out_of_scope", <<>>)
             c1 == session_set(session_set(c, "elements", detected_elements),
                               "excluded", excluded_elements)
             c2 == IF out_of_scope # <<>> THEN say(c1, "out_of_scope_note") ELSE c1
         IN  set_state(say(c2, "summary"), READY_TO_GENERATE)

\* mutant: a request with out-of-scope items is re-prompted after the note
store_interpretation_out_of_scope_stops(c, interpretation) ==
    IF interpretation.kind # "dict"
    THEN say_error(c, "interpretation_error", "AttributeError")
    ELSE LET detected_elements == dict_get(interpretation, "elements", <<>>)
             excluded_elements == dict_get(interpretation, "excluded", <<>>)
             out_of_scope == dict_get(interpretation, "out_of_scope", <<>>)
             c1 == session_set(session_set(c, "elements", detected_elements),
                               "excluded", excluded_elements)
             c2 == IF out_of_scope # <<>> THEN say(c1, "out_of_scope_note") ELSE c1
         IN  IF detected_elements = <<>> \/ out_of_scope # <<>>
             THEN say(c2, "no_elements_found")
             ELSE set_state(say(c2, "summary"), READY_TO_GENERATE)

\* the COLLECTING_ELEMENTS branch of handle_chat after a returned
\* interpretation
store_interpretation(c, interpretation) ==
    IF interpretation.kind # "dict"
    THEN say_error(c, "interpretation_error", "AttributeError")
    ELSE LET detected_elements == dict_get(interpretation, "elements", <<>>)
             excluded_elements == dict_get(interpretation, "excluded", <<>>)
             out_of_scope == dict_get(interpretation, "out_of_scope", <<>>)
             c1 == session_set(session_set(c, "elements", detected_elements),
                               "excluded", excluded_elements)
             c2 == IF out_of_scope # <<>> THEN say(c1, "out_of_scope_note") ELSE c1
         IN  IF detected_elements = <<>>
             THEN say(c2, "no_elements_found")
             ELSE set_state(say(c2, "summary"), READY_TO_GENERATE)

\* the COLLECTING_ELEMENTS branch of handle_chat
collect_elements(c, user_message) ==
    LET c1 == say(session_set(c, "user_description", user_message), "interpreting")
    IN  { IF o.ok
          THEN store_interpretation(after_call(c1, o), o.val)
          ELSE say_error(after_call(c1, o), "interpretation_error", o.err)
          : o \in interpret_user_request(c.svc, user_message, c.sess.style) }

\* mutant: the trigger test without the state test
wants_generation_any_state(state, user_lower) == any_in(generate_triggers, user_lower)

\* mutant: the trigger test as equality with a trigger word
wants_generation_exact(state, user_lower) ==
    /\ state = READY_TO_GENERATE
    /\ \E i \in 1..Len(generate_triggers) : user_lower = generate_triggers[i]

\* the generate trigger test of handle_chat
wants_generation(state, user_lower) ==
    state = READY_TO_GENERATE /\ any_in(generate_triggers, user_lower)

\* the restart trigger test of handle_chat
wants_restart(user_lower) == any_in(restart_triggers, user_lower)

\* mutant: text that triggers nothing re-enters the interpreter step
generic_chat_reinterprets(c, state, user_message) == collect_elements(c, user_message)

\* the catch-all chat of handle_chat
generic_chat(c, state, user_message) ==
    LET image_data == c.sess.uploaded_image
    IN  { IF o.ok
          THEN say(after_call(c, o), "chat_reply")
          ELSE [after_call(c, o) EXCEPT !.exc = o.err]
          : o \in chat(c.svc, user_message,
                       IF state = WAITING_IMAGE THEN image_data ELSE None) }

\* handle_chat
handle_chat(c, user_message, api_key) ==
    LET state == c.sess.state
        user_lower == lower(user_message)
    IN  IF state = COLLECTING_STYLE /\ detected_style(user_lower) # None
        THEN { say(set_state(session_set(c, "style", detected_style(user_lower)),
                             COLLECTING_ELEMENTS),
                   "style_chosen") }
        ELSE IF state = COLLECTING_ELEMENTS
        THEN collect_elements(c, user_message)
        ELSE IF wants_generation(state, user_lower)
        THEN generate_rendering(c, api_key)
        ELSE IF state = GENERATED
        THEN IF wants_restart(user_lower)
             THEN generate_rendering(c, api_key)
             ELSE refine_current_rendering(c, user_message)
        ELSE generic_chat(c, state, user_message)

\* the re-dispatch test of handle_image_upload
RedispatchLen == 5

\* mutant: the length test as `>= 5`
redispatch_from_five(user_message) ==
    user_message # <<>> /\ Len(user_message) >= RedispatchLen

redispatch(user_message) == user_message # <<>> /\ Len(user_message) > RedispatchLen

\* mutant: a photo sent after the first one leaves the state where it is
handle_image_upload_once(c, image_data, user_message, api_key) ==
    LET c1 == say(c, "photo_received")
        analysed(o) ==
            IF c.sess.state = WAITING_IMAGE
            THEN set_state(say(session_set(after_call(c1, o), "photo_analysis", o.val),
                               "choose_style"),
                           COLLECTING_STYLE)
            ELSE say(session_set(after_call(c1, o), "photo_analysis", o.val), "choose_style")
        caught(r) ==
            IF r.exc # None THEN say_error([r EXCEPT !.exc = None], "error", r.exc) ELSE r
    IN  UNION { IF ~o.ok
                THEN { say_error(after_call(c1, o), "error", o.err) }
                ELSE IF redispatch(user_message)
                THEN { caught(r) : r \in handle_chat(analysed(o), user_message, api_key) }
                ELSE { analysed(o) }
                : o \in analyze_garden(c.svc, image_data) }

\* handle_image_upload
handle_image_upload(c, image_data, user_message, api_key) ==
    LET c1 == say(c, "photo_received")
        analysed(o) ==
            set_state(say(session_set(after_call(c1, o), "photo_analysis", o.val),
                          "choose_style"),
                      COLLECTING_STYLE)
        caught(r) ==
            IF r.exc # None THEN say_error([r EXCEPT !.exc = None], "error", r.exc) ELSE r
    IN  UNION { IF ~o.ok
                THEN { say_error(after_call(c1, o), "error", o.err) }
                ELSE IF redispatch(user_message)
                THEN { caught(r) : r \in handle_chat(analysed(o), user_message, api_key) }
                ELSE { analysed(o) }
                : o \in analyze_garden(c.svc, image_data) }

\* mutant: the attachment is not stored before its analysis
store_attachment_later(c, attachment) == c

\* the attachment scan of on_message: the first cl.Image is read and stored
store_attachment(c, attachment) ==
    IF attachment # None THEN session_set(c, "uploaded_image", attachment) ELSE c

\* mutant: no test for WAITING_IMAGE, every text goes on to handle_chat
on_message_without_photo_gate(c, content, attachment, api_key) ==
    LET got == get_service(c.svc, api_key)
        c1 == store_attachment([c EXCEPT !.svc = got.svc], attachment)
    IN  IF ~got.ok THEN { [c EXCEPT !.exc = "GOOGLE_API_KEY non configurata"] }
        ELSE IF truthy(attachment)
        THEN handle_image_upload(c1, attachment, content, api_key)
        ELSE handle_chat(c1, content, api_key)

\* on_message
on_message(c, content, attachment, api_key) ==
    LET got == get_service(c.svc, api_key)
        state == c.sess.state
        c1 == store_attachment([c EXCEPT !.svc = got.svc], attachment)
    IN  IF ~got.ok THEN { [c EXCEPT !.exc = "GOOGLE_API_KEY non configurata"] }
        ELSE IF truthy(attachment)
        THEN handle_image_upload(c1, attachment, content, api_key)
        ELSE IF state = WAITING_IMAGE
        THEN { say(c1, "upload_first") }
        ELSE handle_chat(c1, content, api_key)

\* ------------------------------------------------------------------ the system

RECURSIVE last_image(_, _)
\* the image of the last successful render or refinement among calls, or
\* before when there is none
last_image(calls, before) ==
    IF calls = <<>> THEN before
    ELSE LET k == calls[Len(calls)]
         IN  IF k.ok /\ k.name \in {"generate_landscape_rendering", "refine_rendering"}
             THEN k.result
             ELSE last_image(SubSeq(calls, 1, Len(calls) - 1), before)

RECURSIVE chat_turns_of(_)
\* the turns the successful chat calls among calls appended to the history
chat_turns_of(calls) ==
    IF calls = <<>> THEN <<>>
    ELSE LET k == Head(calls)
         IN  (IF k.name = "chat" /\ k.ok
              THEN << k.contents[Len(k.contents)], Content("model", None, ChatReply) >>
              ELSE <<>>)
             \o chat_turns_of(Tail(calls))

\* the record of a handler run
Ran(handler, s, content, attachment, r) ==
    [handler |-> handler, session |-> s, content |-> content, attachment |-> attachment,
     state_before |-> user_session[s].state,
     image_before |-> gemini_service.current_image,
     states |-> r.log.states, written |-> r.log.written,
     calls |-> r.log.calls, sent |-> r.log.sent,
     rendering |-> r.log.rendering, exc |-> r.exc]

\* a handler's end state becomes the system's
Commit(handler, s, content, attachment, r) ==
    /\ gemini_service' = r.svc
    /\ user_session' = [user_session EXCEPT ![s] = r.sess]
    /\ generated_for' = [generated_for EXCEPT ![s] = last_image(r.log.calls, @)]
    /\ chatted_for' = [chatted_for EXCEPT ![s] = @ \o chat_turns_of(r.log.calls)]
    /\ last' = Ran(handler, s, content, attachment, r)
    /\ UNCHANGED <<GOOGLE_API_KEY, gemini_api>>

NoRun ==
    [handler |-> "none", session |-> None, content |-> <<>>, attachment |-> None,
     state_before |-> None, image_before |-> None,
     states |-> <<>>, written |-> {}, calls |-> <<>>, sent |-> <<>>,
     rendering |-> FALSE, exc |-> None]

\* the process starts: no service, no session
Start ==
    /\ gemini_service = NoService
    /\ user_session = [s \in Sessions |-> NoSession]
    /\ generated_for = [s \in Sessions |-> None]
    /\ chatted_for = [s \in Sessions |-> <<>>]
    /\ tasks = <<>>
    /\ last = NoRun

\* a user opens a chat
OnChatStart(s) ==
    /\ ~user_session[s].connected
    /\ \E r \in on_chat_start(Context(user_session[s], gemini_service), GOOGLE_API_KEY) :
           Commit("on_chat_start", s, <<>>, None, r)
    /\ UNCHANGED tasks

\* a user of an open chat sends a message
OnMessage(s, texts, attachments) ==
    /\ user_session[s].connected
    /\ \E content \in texts, attachment \in attachments :
           \E r \in on_message(Context(user_session[s], gemini_service),
                               content, attachment, GOOGLE_API_KEY) :
               Commit("on_message", s, content, attachment, r)
    /\ UNCHANGED tasks

\* one session, with or without the credential, any answer of the API
Init ==
    /\ GOOGLE_API_KEY \in {"", "key"}
    /\ gemini_api = "any"
    /\ Start

Next ==
    \/ OnChatStart("A")
    \/ OnMessage("A", Texts, Attachments)

Spec == Init /\ [][Next]_vars

\* two sessions of one process, the credential set, a plain API
InitTwo ==
    /\ GOOGLE_API_KEY = "key"
    /\ gemini_api = "plain"
    /\ Start

NextTwo ==
    \/ \E s \in Sessions : OnChatStart(s)
    \/ \E s \in Sessions : OnMessage(s, Texts, {None, "photo1"})

SpecTwo == InitTwo /\ [][NextTwo]_vars

\* ---- the handlers by their awaits: a handler runs from one await to the
\* next without interruption, and at an await another message's handler
\* may run

\* what generate_rendering read from the session before its first await
Task(s, kind, content, sess) ==
    [session |-> s, kind |-> kind, pc |-> "status_sent", content |-> content,
     image_data |-> sess.uploaded_image, style |-> sess.style,
     elements |-> sess.elements, excluded |-> sess.excluded,
     user_description |-> sess.user_description]

\* the branch of handle_chat a text takes to a rendering or a refinement
rendering_kind(state, user_lower) ==
    IF wants_generation(state, user_lower) THEN "generate"
    ELSE IF state = GENERATED
    THEN IF wants_restart(user_lower) THEN "generate" ELSE "refine"
    ELSE None

\* generate_rendering / refine_current_rendering up to the send of the
\* status message
status_sent(c, kind) ==
    IF kind = "generate"
    THEN say([c EXCEPT !.log.rendering = TRUE], "generating")
    ELSE say(c, "refining")

\* generate_rendering / refine_current_rendering from the status message
\* to the sends after the call of the service
service_called(c, task) ==
    IF task.kind = "generate"
    THEN { IF o.ok
           THEN say(say(after_call(c, o), "rendering"), "next_steps")
           ELSE say_error(after_call(c, o), "generation_error", o.err)
           : o \in generate_landscape_rendering(
                       c.svc, task.image_data, task.style, task.elements,
                       << <<"a", "l", "b", "e", "r", "i">> >>,
                       additional_notes(task.style, task.excluded, task.user_description)) }
    ELSE { IF o.ok
           THEN say(after_call(c, o), "refined_rendering")
           ELSE say_error(after_call(c, o), "refinement_error", o.err)
           : o \in refine_rendering(c.svc, task.content) }

\* a list without its i-th item
Without(list, i) == SubSeq(list, 1, i - 1) \o SubSeq(list, i + 1, Len(list))

\* a text message is delivered and its handler runs to the send of the
\* status message of a rendering or a refinement
BeginRendering(s) ==
    /\ user_session[s].initialised
    /\ Len(tasks) < MaxTasks
    /\ \E content \in Texts :
           LET sess == user_session[s]
               kind == rendering_kind(sess.state, lower(content))
           IN  /\ kind # None
               /\ kind = "generate" => ~no_uploaded_image(sess.uploaded_image)
               /\ tasks' = Append(tasks, Task(s, kind, content, sess))
               /\ Commit("on_message", s, content, None,
                         status_sent(Context(sess, gemini_service), kind))

\* a suspended handler goes on after its status message: it calls the
\* service and sends the result or the error
CallService(i) ==
    /\ i \in 1..Len(tasks)
    /\ tasks[i].pc = "status_sent"
    /\ LET task == tasks[i]
       IN  \E r \in service_called(Context(user_session[task.session], gemini_service), task) :
               /\ tasks' = IF task.kind = "generate" /\ r.log.calls[1].ok
                           THEN [tasks EXCEPT ![i].pc = "result_sent"]
                           ELSE Without(tasks, i)
               /\ Commit("on_message", task.session, task.content, None, r)

\* a suspended generate_rendering goes on after its last message: it sets
\* the state
EndRendering(i) ==
    /\ i \in 1..Len(tasks)
    /\ tasks[i].pc = "result_sent"
    /\ tasks' = Without(tasks, i)
    /\ Commit("on_message", tasks[i].session, tasks[i].content, None,
              set_state(Context(user_session[tasks[i].session], gemini_service), GENERATED))

\* one session whose messages may arrive while a handler is suspended
InitAwait ==
    /\ GOOGLE_API_KEY = "key"
    /\ gemini_api = "plain"
    /\ Start

NextAwait ==
    \/ OnChatStart("A")
    \/ OnMessage("A", Texts, {None, "photo1"})
    \/ BeginRendering("A")
    \/ \E i \in 1..MaxTasks : CallService(i)
    \/ \E i \in 1..MaxTasks : EndRendering(i)

SpecAwait == InitAwait /\ [][NextAwait]_vars

\* ---- the service by itself: a caller uses the public methods of one
\* GeminiImageService in any order

Alberi == <<"a", "l", "b", "e", "r", "i">>
Siepe == <<"s", "i", "e", "p", "e">>

\* preserve_elements of a generation call: None or [] (both <<>>), one
\* item, two items, a list that repeats a baseline item
PreserveLists == { <<>>, <<Alberi>>, <<Siepe, Alberi>>, <<Tetto, Alberi>> }

\* the record of a call of a service method
ServiceRan(method, message, image_data, preserve_elements, o) ==
    [handler |-> method, session |-> None, content |-> message, attachment |-> image_data,
     state_before |-> None,
     image_before |-> gemini_service.current_image,
     states |-> <<>>, written |-> {},
     calls |-> o.calls, sent |-> <<>>,
     rendering |-> FALSE, exc |-> o.err,
     preserve_elements |-> preserve_elements]

\* a service method's end state becomes the service's
ServiceCommit(method, message, image_data, preserve_elements, o) ==
    /\ gemini_service' = o.svc
    /\ last' = ServiceRan(method, message, image_data, preserve_elements, o)
    /\ UNCHANGED <<GOOGLE_API_KEY, gemini_api, user_session, generated_for, chatted_for, tasks>>

ServiceChat ==
    \E image_data \in {None, "photo1", "photo2"} :
        \E o \in chat(gemini_service, TextFiori, image_data) :
            ServiceCommit("chat", TextFiori, image_data, <<>>, o)

ServiceGenerate ==
    \E style \in {"zen", "rustic"}, preserve_elements \in PreserveLists :
        \E o \in generate_landscape_rendering(
                     gemini_service, "photo1", style, <<Prato>>, preserve_elements,
                     additional_notes(style, <<>>, <<>>)) :
            ServiceCommit("generate_landscape_rendering", <<>>, "photo1", preserve_elements, o)

ServiceRefine ==
    \E o \in refine_rendering(gemini_service, TextFiori) :
        ServiceCommit("refine_rendering", TextFiori, None, <<>>, o)

ServiceAnalyze ==
    \E o \in analyze_garden(gemini_service, "photo1") :
        ServiceCommit("analyze_garden", <<>>, "photo1", <<>>, o)

ServiceInterpret ==
    \E o \in interpret_user_request(gemini_service, TextFiori, "zen") :
        ServiceCommit("interpret_user_request", TextFiori, None, <<>>, o)

ServiceReset ==
    /\ gemini_service.exists
    /\ ServiceCommit("reset_session", <<>>, None, <<>>,
                     Outcome(reset_session(gemini_service), TRUE, None, None, <<>>))

\* a service just constructed
InitService ==
    /\ GOOGLE_API_KEY = "key"
    /\ gemini_api = "chat"
    /\ gemini_service = NewService
    /\ user_session = [s \in Sessions |-> NoSession]
    /\ generated_for = [s \in Sessions |-> None]
    /\ chatted_for = [s \in Sessions |-> <<>>]
    /\ tasks = <<>>
    /\ last = NoRun

NextService ==
    \/ ServiceChat
    \/ ServiceGenerate
    \/ ServiceRefine
    \/ ServiceAnalyze
    \/ ServiceInterpret
    \/ ServiceReset

SpecService == InitService /\ [][NextService]_vars

\* two sessions of one process that chat about their photos
InitChat ==
    /\ GOOGLE_API_KEY = "key"
    /\ gemini_api = "chat"
    /\ Start

NextChat ==
    \/ \E s \in Sessions : OnChatStart(s)
    \/ \E s \in Sessions : OnMessage(s, {TextFiori, TextRigenera}, {None, "photo1"})

SpecChat == InitChat /\ [][NextChat]_vars

\* one session that sends one photo or another, a plain API
InitPhotos ==
    /\ GOOGLE_API_KEY = "key"
    /\ gemini_api = "plain"
    /\ Start

NextPhotos ==
    \/ OnChatStart("A")
    \/ OnMessage("A", Texts, {None, "photo1", "photo2"})

SpecPhotos == InitPhotos /\ [][NextPhotos]_vars

\* a user answers the style question
OnStyleAnswer(s) ==
    /\ user_session[s].state = COLLECTING_STYLE
    /\ OnMessage(s, StyleTexts, {None})

\* one session that is asked for its style again after every photo
InitStyle ==
    /\ GOOGLE_API_KEY = "key"
    /\ gemini_api = "any"
    /\ Start

NextStyle ==
    \/ OnChatStart("A")
    \/ OnMessage("A", {TextFiori, TextLoungeZen}, {"photo1"})
    \/ OnStyleAnswer("A")

SpecStyle == InitStyle /\ [][NextStyle]_vars

\* ------------------------------------------------------------------ properties

\* the calls of the last handler run that went to capability `name`
CallsTo(name) == { i \in 1..Len(last.calls) : last.calls[i].name = name }

\* the last handler run was on_message with a text-only message
TextMessage == last.handler = "on_message" /\ ~truthy(last.attachment)

\* the kinds of the messages the last handler run sent
SentKinds == { last.sent[i].kind : i \in 1..Len(last.sent) }

\* C1: the image-generation capability is never called with an unset or
\* empty uploaded image; when generate_rendering is entered with such an
\* image it only sends the guidance message: no capability call, and no
\* session key assigned besides the attachment on_message stored before,
\* so the state is as it was before the message.
NoRenderingWithoutImage ==
    /\ \A i \in CallsTo("generate_landscape_rendering") : truthy(last.calls[i].image)
    /\ (last.rendering /\ ~truthy(user_session[last.session].uploaded_image)) =>
           /\ last.calls = <<>>
           /\ last.sent = << [kind |-> "no_image_guidance", error |-> None] >>
           /\ last.written \subseteq {"uploaded_image"}
           /\ user_session[last.session].state = last.state_before

\* C1 witness: a confirmation in READY_TO_GENERATE met an empty uploaded image
RenderingRefusedWithoutImage ==
    /\ last.rendering
    /\ last.state_before = READY_TO_GENERATE
    /\ user_session[last.session].uploaded_image = ""
    /\ SentKinds = {"no_image_guidance"}

\* C2: no mutable state is shared across sessions: a handler run of one
\* session leaves unchanged the chat history, current image and original
\* image that another, started session's next operation uses.
SessionsShareNothing ==
    [][ \A a \in Sessions :
            (user_session[a].initialised /\ last'.session # a) =>
                /\ gemini_service'.chat_history = gemini_service.chat_history
                /\ gemini_service'.current_image = gemini_service.current_image
                /\ gemini_service'.original_image = gemini_service.original_image ]_vars

\* the state a handler run was in before each assignment to "state"
StateChain == <<last.state_before>> \o last.states

\* C3: the state moves forward in the required order: WAITING_IMAGE is
\* entered only from WELCOME, COLLECTING_ELEMENTS only from
\* COLLECTING_STYLE, READY_TO_GENERATE only from COLLECTING_ELEMENTS and
\* GENERATED only from READY_TO_GENERATE or GENERATED.
StatesInRequiredOrder ==
    \A i \in 1..Len(last.states) :
        LET from == StateChain[i]
            to == StateChain[i + 1]
        IN  /\ to = WAITING_IMAGE => from = WELCOME
            /\ to = COLLECTING_ELEMENTS => from = COLLECTING_STYLE
            /\ to = READY_TO_GENERATE => from = COLLECTING_ELEMENTS
            /\ to = GENERATED => from \in {READY_TO_GENERATE, GENERATED}

\* C3 witness: a session that walked the whole order has just rendered
WalkedToGenerated ==
    /\ last.state_before = READY_TO_GENERATE
    /\ last.states = <<GENERATED>>
    /\ user_session[last.session].style # None
    /\ user_session[last.session].elements # <<>>

\* the interpretation answers that are not the required JSON object
Unparseable == {"absent", "not_json", "empty", "list", "string"}

\* C4: when the interpretation answer is not parseable as the required
\* JSON object, the COLLECTING_ELEMENTS handler goes on with elements =
\* [raw user text] and excluded = [], and sends no error.
UnparseableFallsBack ==
    \A i \in CallsTo("interpret_user_request") :
        last.calls[i].answer \in Unparseable =>
            /\ user_session[last.session].elements = <<last.content>>
            /\ user_session[last.session].excluded = <<>>
            /\ \A j \in 1..Len(last.sent) : last.sent[j].error = None

\* the items of a list
Items(list) == { list[i] : i \in 1..Len(list) }

\* C5: after any interpreter call the session's elements and excluded
\* lists are disjoint, and so are the inclusion and forbidden lists of a
\* generation call.
ElementsExcludedDisjoint ==
    /\ \A s \in Sessions :
           Items(user_session[s].elements) \cap Items(user_session[s].excluded) = {}
    /\ \A i \in CallsTo("generate_landscape_rendering") :
           Items(last.calls[i].modifications) \cap Items(last.calls[i].excluded) = {}

\* the text of the last message holds a generate trigger
HasGenerateTrigger == any_in(generate_triggers, lower(last.content))

\* the text of the last message holds a restart trigger
HasRestartTrigger == any_in(restart_triggers, lower(last.content))

\* C6: in READY_TO_GENERATE a text message enters rendering if and only if
\* its lower-cased text contains a generate trigger as a substring; no
\* message received in WAITING_IMAGE, COLLECTING_STYLE or
\* COLLECTING_ELEMENTS enters rendering.
RenderingOnlyOnTriggerWhenReady ==
    /\ (TextMessage /\ last.state_before = READY_TO_GENERATE) =>
           (last.rendering <=> HasGenerateTrigger)
    /\ (last.handler = "on_message"
        /\ last.state_before \in {WAITING_IMAGE, COLLECTING_STYLE, COLLECTING_ELEMENTS}) =>
           ~last.rendering

\* C6 witness: an upper-case text holding "genera" inside a longer word
\* confirmed the summary and the render was requested
TriggerInsideWordRenders ==
    /\ TextMessage
    /\ last.state_before = READY_TO_GENERATE
    /\ last.content = TextRigenera
    /\ last.rendering
    /\ CallsTo("generate_landscape_rendering") # {}

\* a text message without a generate trigger was received in READY_TO_GENERATE
NonTriggerWhenReady ==
    /\ TextMessage
    /\ last.state_before = READY_TO_GENERATE
    /\ ~HasGenerateTrigger

\* C7 as claimed: in READY_TO_GENERATE a text without a trigger word
\* re-enters the interpreter step: the Intent Interpreter is called on it.
NonTriggerReinterprets ==
    NonTriggerWhenReady =>
        \E i \in CallsTo("interpret_user_request") : last.calls[i].text = last.content

\* C7 as amended: in READY_TO_GENERATE a text without a trigger word goes
\* to the generic chat: the one capability call is chat() on that text, the
\* Intent Interpreter is not called, and no session key is assigned beyond
\* an attachment stored by on_message, so the state, elements and excluded
\* lists stay as they were.
NonTriggerGoesToChat ==
    NonTriggerWhenReady =>
        /\ Len(last.calls) = 1
        /\ last.calls[1].name = "chat"
        /\ last.calls[1].text = last.content
        /\ last.written \subseteq {"uploaded_image"}
        /\ user_session[last.session].state = READY_TO_GENERATE

\* C7 witness: a style word sent in READY_TO_GENERATE was answered by the chat
ChattedWhenReady ==
    /\ NonTriggerWhenReady
    /\ last.content = TextModerno
    /\ SentKinds = {"chat_reply"}
    /\ user_session[last.session].elements # <<>>

\* C8: in GENERATED a message with a restart trigger calls the generation
\* capability again with the stored style and elements; on success the
\* state is GENERATED and the current image is the returned image.
RestartRendersAgain ==
    (last.handler = "on_message" /\ last.attachment = None
     /\ last.state_before = GENERATED /\ HasRestartTrigger) =>
        /\ CallsTo("generate_landscape_rendering") # {}
        /\ \A i \in CallsTo("generate_landscape_rendering") :
               /\ last.calls[i].style = user_session[last.session].style
               /\ last.calls[i].modifications = user_session[last.session].elements
               /\ last.calls[i].ok =>
                      /\ user_session[last.session].state = GENERATED
                      /\ gemini_service.current_image = last.calls[i].result

\* C9: when an initial render fails (the call raises or answers without an
\* image) the failure is reported, the state is assigned nothing and stays
\* READY_TO_GENERATE, and the current image is the one from before.
FailedRenderStaysReady ==
    \A i \in CallsTo("generate_landscape_rendering") :
        (last.state_before = READY_TO_GENERATE /\ ~last.calls[i].ok) =>
            /\ \E j \in 1..Len(last.sent) :
                   last.sent[j].kind = "generation_error" /\ last.sent[j].error # None
            /\ last.states = <<>>
            /\ user_session[last.session].state = READY_TO_GENERATE
            /\ gemini_service.current_image = last.image_before

\* C9 witness: the render answered without an image part
RenderWithoutImageReported ==
    /\ last.state_before = READY_TO_GENERATE
    /\ \E i \in CallsTo("generate_landscape_rendering") : ~last.calls[i].ok
    /\ \E j \in 1..Len(last.sent) :
           last.sent[j].error = "Nessuna immagine generata nella risposta"

\* C10: in GENERATED a text without a restart trigger is sent as
\* refinement feedback with the image the session's last successful render
\* or refinement returned; on success that image is replaced by the refined
\* one, on failure the state and the current image stay.
RefinesOwnLatestRendering ==
    [][ (last'.handler = "on_message" /\ last'.attachment = None
         /\ last'.state_before = GENERATED /\ ~HasRestartTrigger') =>
            /\ Len(last'.calls) = 1
            /\ last'.calls[1].name = "refine_rendering"
            /\ last'.calls[1].text = last'.content
            /\ last'.calls[1].image = generated_for[last'.session]
            /\ user_session'[last'.session].state = GENERATED
            /\ gemini_service'.current_image =
                   IF last'.calls[1].ok THEN last'.calls[1].result
                   ELSE generated_for[last'.session]
      ]_vars

\* the last handler run was on_message with no cl.Image element attached
NoImageAttached == last.handler = "on_message" /\ last.attachment = None

\* C11: in WAITING_IMAGE a message without an attached image, whatever its
\* text, is answered with the prompt to upload a photo and nothing else: no
\* capability is called, no session key is assigned and the state stays
\* WAITING_IMAGE.
WaitingImageRejectsText ==
    (NoImageAttached /\ last.state_before = WAITING_IMAGE) =>
        /\ last.sent = << [kind |-> "upload_first", error |-> None] >>
        /\ last.calls = <<>>
        /\ last.written = {}
        /\ last.exc = None
        /\ ~last.rendering
        /\ user_session[last.session].state = WAITING_IMAGE

\* C11 witness: a text holding the trigger "genera" was sent before any photo
TriggerBeforePhotoRejected ==
    /\ NoImageAttached
    /\ last.state_before = WAITING_IMAGE
    /\ HasGenerateTrigger
    /\ SentKinds = {"upload_first"}

\* the last handler run was on_message with a photo attached
PhotoAttached == last.handler = "on_message" /\ truthy(last.attachment)

\* the analysis call of the last handler run returned
AnalysisSucceeded ==
    /\ CallsTo("analyze_garden") = {1}
    /\ last.calls[1].ok

\* the text of the last message names a style of the lexicon
NamesStyle ==
    \E i \in 1..Len(style_keywords) :
        any_in(style_keywords[i].keywords, lower(last.content))

\* C12: in WAITING_IMAGE a message with a photo whose analysis succeeds
\* stores the photo and sets the state to COLLECTING_STYLE. A text of more
\* than 5 characters is then handled once in COLLECTING_STYLE within the
\* same message: naming a style it ends in COLLECTING_ELEMENTS, otherwise
\* it is the one chat call and the state stays; the interpreter and the
\* renderer are never reached. A text of 5 characters or fewer is not
\* handled at all.
UploadRedispatchesLongText ==
    (PhotoAttached /\ last.state_before = WAITING_IMAGE /\ AnalysisSucceeded) =>
        LET sess == user_session[last.session]
        IN  /\ sess.uploaded_image = last.attachment
            /\ last.calls[1].image = last.attachment
            /\ last.states[1] = COLLECTING_STYLE
            /\ ~last.rendering
            /\ CallsTo("interpret_user_request") = {}
            /\ IF Len(last.content) > 5
               THEN IF NamesStyle
                    THEN /\ last.states = <<COLLECTING_STYLE, COLLECTING_ELEMENTS>>
                         /\ sess.state = COLLECTING_ELEMENTS
                         /\ sess.style # None
                         /\ Len(last.calls) = 1
                    ELSE /\ last.states = <<COLLECTING_STYLE>>
                         /\ sess.state = COLLECTING_STYLE
                         /\ Len(last.calls) = 2
                         /\ last.calls[2].name = "chat"
                         /\ last.calls[2].text = last.content
               ELSE /\ last.states = <<COLLECTING_STYLE>>
                    /\ sess.state = COLLECTING_STYLE
                    /\ Len(last.calls) = 1
                    /\ SentKinds = {"photo_received", "choose_style"}

\* C12 witness: the first photo came with a style word and the message
\* ended in COLLECTING_ELEMENTS
UploadWithStyleWord ==
    /\ PhotoAttached
    /\ last.state_before = WAITING_IMAGE
    /\ AnalysisSucceeded
    /\ last.content = TextModerno
    /\ user_session[last.session].state = COLLECTING_ELEMENTS
    /\ user_session[last.session].style = "modern"

\* the canonical style tags in their declaration order
TagOrder == <<"modern", "mediterranean", "tropical", "zen", "english", "contemporary">>

\* a keyword of the tag occurs in the text
TagMatches(tag, text) ==
    \E i \in 1..Len(style_keywords) :
        /\ style_keywords[i].style = tag
        /\ \E k \in 1..Len(style_keywords[i].keywords) :
               contains(text, style_keywords[i].keywords[k])

\* the first tag of TagOrder with a keyword in the text, None without one
FirstTagInOrder(text) ==
    LET hits == { i \in 1..Len(TagOrder) : TagMatches(TagOrder[i], text) }
    IN  IF hits = {} THEN None
        ELSE TagOrder[CHOOSE i \in hits : \A j \in hits : i <= j]

\* C13: in COLLECTING_STYLE the stored style is the first canonical tag, in
\* declaration order, with a keyword occurring in the lower-cased text, and
\* the state becomes COLLECTING_ELEMENTS; with no such tag the style and
\* the state are left as they were and the text is the one chat call.
StyleIsFirstTagInOrder ==
    (NoImageAttached /\ last.state_before = COLLECTING_STYLE) =>
        LET tag == FirstTagInOrder(lower(last.content))
            sess == user_session[last.session]
        IN  IF tag # None
            THEN /\ sess.style = tag
                 /\ sess.state = COLLECTING_ELEMENTS
                 /\ last.written = {"style", "state"}
                 /\ last.calls = <<>>
            ELSE /\ last.written = {}
                 /\ sess.state = COLLECTING_STYLE
                 /\ Len(last.calls) = 1
                 /\ last.calls[1].name = "chat"
                 /\ last.calls[1].text = last.content

\* C13 witness: "zen moderno" names zen first and modern second, and the
\* style stored is modern
EarlierTagWins ==
    /\ NoImageAttached
    /\ last.state_before = COLLECTING_STYLE
    /\ last.content = TextZenModerno
    /\ user_session[last.session].style = "modern"
    /\ user_session[last.session].state = COLLECTING_ELEMENTS

\* the interpreter call of the last handler run returned an interpretation
\* object (a parsed one or the fallback)
InterpreterSucceeded ==
    /\ NoImageAttached
    /\ last.state_before = COLLECTING_ELEMENTS
    /\ \E i \in CallsTo("interpret_user_request") :
           last.calls[i].ok /\ last.calls[i].answer \notin {"list", "string"}

\* C14: in COLLECTING_ELEMENTS, after a successful interpreter call, an
\* empty elements list re-prompts the user and the state stays
\* COLLECTING_ELEMENTS, a non-empty one shows the summary and the state
\* becomes READY_TO_GENERATE; the out-of-scope note is sent in either case
\* and decides neither.
ElementsDecideReadiness ==
    InterpreterSucceeded =>
        LET sess == user_session[last.session]
            kinds == SentKinds \ {"interpreting", "out_of_scope_note"}
        IN  /\ last.exc = None
            /\ IF sess.elements = <<>>
               THEN /\ kinds = {"no_elements_found"}
                    /\ last.states = <<>>
                    /\ sess.state = COLLECTING_ELEMENTS
               ELSE /\ kinds = {"summary"}
                    /\ last.states = <<READY_TO_GENERATE>>
                    /\ sess.state = READY_TO_GENERATE

\* C14 witness: a request with an out-of-scope item and a landscaping
\* element got the note and went on to READY_TO_GENERATE
OutOfScopeNotedAndReady ==
    /\ InterpreterSucceeded
    /\ "out_of_scope_note" \in SentKinds
    /\ user_session[last.session].elements = <<Fontana>>
    /\ user_session[last.session].state = READY_TO_GENERATE

\* the capabilities whose failure the handlers catch
Upstream ==
    {"analyze_garden", "interpret_user_request", "generate_landscape_rendering",
     "refine_rendering"}

\* the kinds of the messages that report a failure
ErrorKinds == {"error", "interpretation_error", "generation_error", "refinement_error"}

\* C15: when a call of image analysis, interpretation, generation or
\* refinement fails, the handler that made it catches the failure (nothing
\* propagates), the last message sent carries the error text, and the
\* state after the message is the state before it.
UpstreamFailureKeepsState ==
    \A i \in 1..Len(last.calls) :
        (last.calls[i].name \in Upstream /\ ~last.calls[i].ok) =>
            /\ i = Len(last.calls)
            /\ last.exc = None
            /\ last.sent # <<>>
            /\ last.sent[Len(last.sent)].kind \in ErrorKinds
            /\ last.sent[Len(last.sent)].error # None
            /\ last.states = <<>>
            /\ user_session[last.session].state = last.state_before

\* C15 witness: a refinement answered without an image and the session is
\* still GENERATED
RefinementFailureReported ==
    /\ last.state_before = GENERATED
    /\ \E i \in CallsTo("refine_rendering") : ~last.calls[i].ok
    /\ \E j \in 1..Len(last.sent) : last.sent[j].error = "Nessuna immagine generata"
    /\ user_session[last.session].state = GENERATED

\* C20: when the credential is missing, the configuration error is
\* reported at session start, no session key is initialised, the service
\* singleton stays unset, and a later message makes no capability call (it
\* ends at get_service).
MissingKeyBlocksEverything ==
    GOOGLE_API_KEY = "" =>
        /\ gemini_service = NoService
        /\ \A s \in Sessions :
               /\ ~user_session[s].initialised
               /\ user_session[s].state = None
               /\ user_session[s].uploaded_image = None
        /\ last.calls = <<>>
        /\ last.written = {}
        /\ last.handler = "on_chat_start" =>
               last.sent = << [kind |-> "configuration_error",
                               error |-> "GOOGLE_API_KEY non configurata"] >>
        /\ last.handler = "on_message" =>
               /\ last.sent = <<>>
               /\ last.exc = "GOOGLE_API_KEY non configurata"

\* C20 witness: without the credential a photo was sent after the failed
\* session start
PhotoSentWithoutKey ==
    /\ GOOGLE_API_KEY = ""
    /\ user_session["A"].connected
    /\ last.handler = "on_message"
    /\ last.attachment = "photo1"
    /\ last.exc # None

\* the handlers of a session that are suspended in a rendering or a refinement
InFlight(s) == { i \in 1..Len(tasks) : tasks[i].session = s }

\* C16: within one session at most one rendering or refinement is in
\* flight: a message delivered while a handler of its session is suspended
\* at an await starts no second one.
OneRenderingInFlight == \A s \in Sessions : Cardinality(InFlight(s)) <= 1

\* C17: once original_image has a value, no operation but reset_session
\* changes it.
OriginalImageImmutable ==
    [][ (gemini_service.original_image # None /\ last'.handler # "reset_session") =>
            gemini_service'.original_image = gemini_service.original_image ]_vars

\* the system instruction and its acknowledgement, the first two turns of
\* a new session's chat request
SystemTurns ==
    << Content("user", None, CHAT_SYSTEM_PROMPT), Content("model", None, SystemAck) >>

\* C18: a chat request of a session is the system instruction when no
\* chat call of that session has succeeded yet, and not otherwise, then
\* the turns of the session's earlier successful chat calls in order, then
\* the latest user turn.
ChatCarriesOwnHistory ==
    [][ \A i \in 1..Len(last'.calls) :
            last'.calls[i].name = "chat" =>
                LET earlier == chatted_for[last'.session]
                    turn == Content("user", last'.calls[i].image, last'.calls[i].text)
                IN  last'.calls[i].contents =
                        (IF earlier = <<>> THEN SystemTurns ELSE <<>>) \o earlier \o <<turn>>
      ]_vars

\* C19: the preserve-list of every generation call begins with the four
\* baseline items (house, windows and doors, roof, foundations) in that
\* order, followed by the preserve items passed in their given order; so
\* it is never empty.
PreserveListKeepsBaseline ==
    \A i \in CallsTo("generate_landscape_rendering") :
        LET preserve == last.calls[i].preserve
        IN  /\ Len(preserve) >= 4
            /\ SubSeq(preserve, 1, 4) =
                   << <<"c", "a", "s", "a">>, <<"f", "i", "n", "e", "s", "t", "r", "e">>,
                      <<"t", "e", "t", "t", "o">>, <<"f", "o", "n", "d", "a", "m", "e", "n", "t", "a">> >>
            /\ SubSeq(preserve, 5, Len(preserve)) = last.preserve_elements

\* C19 witness: a generation call made with no preserve items carried the
\* four baseline items
BaselineAlone ==
    /\ last.handler = "generate_landscape_rendering"
    /\ last.preserve_elements = <<>>
    /\ Len(last.calls[1].preserve) = 4

\* C21: the stored elements list of a session holds no entry twice.
ElementsHaveNoDuplicates ==
    \A s \in Sessions :
        LET elements == user_session[s].elements
        IN  \A i, j \in 1..Len(elements) : i # j => elements[i] # elements[j]

\* C22: in READY_TO_GENERATE and GENERATED the stored elements list is not
\* empty and the stored style is one of the six canonical tags; a
\* generation call carries a non-empty inclusion list and is made by a
\* session whose style is set.
ReadyHasElementsAndStyle ==
    /\ \A s \in Sessions :
           user_session[s].state \in {READY_TO_GENERATE, GENERATED} =>
               /\ user_session[s].elements # <<>>
               /\ user_session[s].style \in
                      {"modern", "mediterranean", "tropical", "zen", "english", "contemporary"}
    /\ \A i \in CallsTo("generate_landscape_rendering") :
           /\ last.calls[i].modifications # <<>>
           /\ last.calls[i].modifications = user_session[last.session].elements
           /\ user_session[last.session].style # None
           /\ last.calls[i].style = user_session[last.session].style

\* C22 witness: a render was requested in READY_TO_GENERATE by a session
\* with a stored element and a stored style
RenderedWithElementsAndStyle ==
    /\ last.state_before = READY_TO_GENERATE
    /\ CallsTo("generate_landscape_rendering") # {}
    /\ user_session[last.session].elements = <<Fontana>>
    /\ user_session[last.session].style = "modern"

\* C23: in COLLECTING_STYLE, COLLECTING_ELEMENTS, READY_TO_GENERATE and
\* GENERATED the session's uploaded image is a non-empty byte buffer.
UploadedImageKept ==
    \A s \in Sessions :
        user_session[s].state \in
            {COLLECTING_STYLE, COLLECTING_ELEMENTS, READY_TO_GENERATE, GENERATED} =>
                truthy(user_session[s].uploaded_image)

\* C24: in one session alone, whenever the state is GENERATED the service
\* holds a current image, and no refinement ends with the error of the
\* missing current image.
GeneratedHasCurrentImage ==
    /\ user_session["A"].state = GENERATED => gemini_service.current_image # None
    /\ \A j \in 1..Len(last.sent) :
           last.sent[j].error # "Nessuna immagine corrente da raffinare"
    /\ (NoImageAttached /\ last.state_before = GENERATED /\ ~HasRestartTrigger) =>
           /\ CallsTo("refine_rendering") = {1}
           /\ last.calls[1].image # None

\* C24 witness: a refinement was requested in GENERATED and the service
\* was called with the current image
RefinementHadImage ==
    /\ NoImageAttached
    /\ last.state_before = GENERATED
    /\ CallsTo("refine_rendering") = {1}
    /\ last.calls[1].image = "render1"
    /\ last.calls[1].ok

\* C25 as amended: a message with a non-empty image is handled as an upload
\* in every state. With a successful analysis the state is set to COLLECTING_STYLE;
\* the elements, the excluded list, the user description and the service's
\* current image keep their values, and so does the style unless the text
\* sent with the photo names a new one. No rendering or refinement is
\* requested by that message, and afterwards none before
\* READY_TO_GENERATE is entered again, which takes a new assignment of the
\* style in COLLECTING_STYLE and a new successful interpreter call
\* assigning the elements in COLLECTING_ELEMENTS.
UploadRestartsCollection ==
    /\ (PhotoAttached /\ user_session[last.session].initialised) =>
           /\ last.sent[1].kind = "photo_received"
           /\ last.calls[1].name = "analyze_garden"
           /\ ~last.rendering
           /\ CallsTo("generate_landscape_rendering") \cup CallsTo("refine_rendering") = {}
    /\ (PhotoAttached /\ AnalysisSucceeded) =>
           /\ last.states # <<>>
           /\ Head(last.states) = COLLECTING_STYLE
           /\ user_session[last.session].state \in {COLLECTING_STYLE, COLLECTING_ELEMENTS}
           /\ last.written \subseteq {"uploaded_image", "photo_analysis", "state", "style"}
           /\ "style" \in last.written => (Len(last.content) > 5 /\ NamesStyle)
           /\ gemini_service.current_image = last.image_before
    /\ (last.handler = "on_message"
        /\ CallsTo("generate_landscape_rendering") \cup CallsTo("refine_rendering") # {}) =>
           last.state_before \in {READY_TO_GENERATE, GENERATED}
    /\ (\E i \in 1..Len(last.states) : last.states[i] = READY_TO_GENERATE) =>
           /\ last.state_before = COLLECTING_ELEMENTS
           /\ "elements" \in last.written
           /\ \E i \in CallsTo("interpret_user_request") : last.calls[i].ok
    /\ (\E i \in 1..Len(last.states) : last.states[i] = COLLECTING_ELEMENTS) =>
           /\ StateChain[Len(StateChain) - 1] = COLLECTING_STYLE
           /\ "style" \in last.written

\* C25 witness: a new photo sent in GENERATED was analysed and the session
\* is asked for its style again, its elements, style and rendering kept
UploadAfterRendering ==
    /\ PhotoAttached
    /\ AnalysisSucceeded
    /\ last.state_before = GENERATED
    /\ user_session[last.session].state = COLLECTING_STYLE
    /\ user_session[last.session].elements # <<>>
    /\ user_session[last.session].style = "modern"
    /\ gemini_service.current_image = "render1"

\* C25 as claimed: every message with a non-empty image whose analysis
\* succeeds ends in COLLECTING_STYLE with the stored style, elements,
\* excluded list, user description and current image as they were.
UploadKeepsStyleAndState ==
    (PhotoAttached /\ AnalysisSucceeded) =>
        /\ user_session[last.session].state = COLLECTING_STYLE
        /\ last.written \subseteq {"uploaded_image", "photo_analysis", "state"}
        /\ gemini_service.current_image = last.image_before

\* the last message was a photo whose analysis failed
AnalysisFailed ==
    /\ PhotoAttached
    /\ Len(last.calls) = 1
    /\ last.calls[1].name = "analyze_garden"
    /\ ~last.calls[1].ok

\* the last message was a text that asks for a rendering: a confirmation
\* in READY_TO_GENERATE or a restart in GENERATED
AskedForRendering ==
    /\ NoImageAttached
    /\ \/ last.state_before = READY_TO_GENERATE /\ HasGenerateTrigger
       \/ last.state_before = GENERATED /\ HasRestartTrigger

\* C26: when the analysis of an uploaded image fails the state is as
\* before and the one session key assigned is uploaded_image, which holds
\* the new bytes; a later confirmation in READY_TO_GENERATE or restart in
\* GENERATED assigns none of uploaded_image, style and elements and
\* renders from the stored image with the stored style and elements.
FailedAnalysisKeepsNewPhoto ==
    /\ AnalysisFailed =>
           /\ last.states = <<>>
           /\ user_session[last.session].state = last.state_before
           /\ last.written = {"uploaded_image"}
           /\ user_session[last.session].uploaded_image = last.attachment
    /\ AskedForRendering =>
           LET sess == user_session[last.session]
           IN  /\ last.written \cap {"uploaded_image", "style", "elements"} = {}
               /\ truthy(sess.uploaded_image) =>
                      /\ CallsTo("generate_landscape_rendering") = {1}
                      /\ last.calls[1].image = sess.uploaded_image
                      /\ last.calls[1].style = sess.style
                      /\ last.calls[1].modifications = sess.elements

\* C26 witness: a restart in GENERATED rendered from the second photo while
\* the stored analysis is still that of the first: the analysis of the
\* second photo had failed
RestartRendersUnanalysedPhoto ==
    /\ AskedForRendering
    /\ last.state_before = GENERATED
    /\ CallsTo("generate_landscape_rendering") = {1}
    /\ last.calls[1].image = "photo2"
    /\ user_session[last.session].photo_analysis = AnalysisText \o <<"photo1">>

\* C27: an interpreter call is made in COLLECTING_ELEMENTS with the
\* message text, which is stored as user_description whether the call
\* succeeds or fails. When the call returns an interpretation the stored
\* elements and excluded lists are exactly the returned lists (the empty
\* list for a missing key), also when the returned elements list is empty;
\* when it fails neither list is assigned.
InterpretationReplacesLists ==
    \A i \in CallsTo("interpret_user_request") :
        LET sess == user_session[last.session]
            call == last.calls[i]
        IN  /\ last.state_before = COLLECTING_ELEMENTS
            /\ call.text = last.content
            /\ "user_description" \in last.written
            /\ sess.user_description = last.content
            /\ IF call.ok /\ call.result.kind = "dict"
               THEN /\ {"elements", "excluded"} \subseteq last.written
                    /\ sess.elements =
                           IF "elements" \in call.result.keys THEN call.result.elements ELSE <<>>
                    /\ sess.excluded =
                           IF "excluded" \in call.result.keys THEN call.result.excluded ELSE <<>>
               ELSE last.written \cap {"elements", "excluded"} = {}

\* C27 witness: a session that has rendered before, so had elements, is
\* collecting elements again and the interpreter returned an empty list:
\* the stored lists are empty and the state has not advanced
EmptyAnswerClearsElements ==
    /\ generated_for["A"] # None
    /\ last.state_before = COLLECTING_ELEMENTS
    /\ CallsTo("interpret_user_request") = {1}
    /\ last.calls[1].ok
    /\ user_session["A"].elements = <<>>
    /\ user_session["A"].excluded = <<>>
    /\ user_session["A"].state = COLLECTING_ELEMENTS
====
